---- MODULE Spec2Model ----
(***************************************************************************)
(* A model of src/src/commands/blackjack.ts: the hand-sum calculator, the  *)
(* hand, the dealer, one round of Blackjack.runGame, and the per-channel   *)
(* registry kept by the blackjack command.                                 *)
(*                                                                         *)
(* A card is modelled by its rank and its face-down flag; the suit is read *)
(* only by Card.toString and decides nothing.  Sequences are 1-based, so   *)
(* the source's players[0].hands[0] is players[1].hands[1] here.           *)
(***************************************************************************)
EXTENDS Integers, Sequences, FiniteSets, TLC

\* ---------------------------------------------------------------- bounds

\* Cards drawn after the initial deal in one round (the shoe is infinite).
MaxDraws == 2

\* Cards appended to the hand of the hand-sum specification.
MaxLen == 4

\* Command invocations in the registry specification.
MaxRounds == 3

\* Cards drawn after the deal in the repeated-split specification.
MaxSplitDraws == 4

\* Cards drawn after the deal in the dealer-loop specification; the dealer loop
\* needs at most 11 (A A, five aces to a soft 17, a 5, five aces to a hard 17).
DealerLimit == 12

\* Cards of each hand of the comparison specification.
MaxCmpLen == 3

\* ------------------------------------------------------- program constants

ACE == 0
Rank_5 == 4
Rank_6 == 5
Rank_10 == 9
QUEEN == 11
RankLength == 13
PERFECT == 21

Ranks == 0 .. (RankLength - 1)

\* The ranks a round draws from.  A round of one user draws from Deck (an ace,
\* two low cards and two different ten-valued ranks); a round of several users
\* draws from SmallDeck, which keeps the number of deals finite enough to explore.
Deck == {ACE, Rank_5, Rank_6, Rank_10, QUEEN}
SmallDeck == {ACE, Rank_6, QUEEN}
Shoe(us) == IF Len(us) = 1 THEN Deck ELSE SmallDeck

\* The ranks of the repeated-split specification: pairs are frequent, so that a
\* hand list of several hands is split again within MaxSplitDraws draws.
PairDeck == {ACE, Rank_6, Rank_10, QUEEN}

\* The ranks of the dealer-loop specification: aces and a 5 give the slowest
\* dealer hands, the 6 and the 10 give soft 17s, hard 17s and busts.
DealerDeck == {ACE, Rank_5, Rank_6, Rank_10}

\* The user lists a round is started with.
UserLists == {<<"a">>, <<"a", "b">>}

\* The registry specification's identities, channels and mention lists.
Ids == {"a", "b"}
ChannelIds == {"c1", "c2"}
MentionLists == {<<>>, <<"a">>, <<"b">>, <<"a", "b">>}

Moves == {"HIT", "STAND", "DOUBLE", "SPLIT", "SURRENDER"}

VARIABLES
    users,      \* Blackjack.users
    players,    \* Blackjack.players: sequence of [hands, user]
    dealer,     \* Blackjack.dealer: a hand with the hidden flag
    pc,         \* where runGame is: start, move, dealer, done, hung
    p,          \* index of the player whose turn it is
    h,          \* index of that player's hand whose turn it is
    move,       \* the last value player.move() resolved to
    desc,       \* the description last shown by display / prompt.edit
    results,    \* the outcome messages shown so far, with the hand each was computed from
    inactivity, \* how many times "Ended due to inactivity." was written
    draws,      \* cards drawn after the initial deal
    reveals,    \* how many times dealer.reveal() was called
    shoe,       \* the ranks this round's draws are taken from
    limit,      \* how many draws after the deal are explored
    channels,   \* the command's channels map: channel id -> set of ids
    rounds,     \* the command invocations that registered: [channel, playerIds, st]
    thrown,     \* whether the last invocation threw "Already playing"
    probe,      \* the hand of the hand-sum specification, `this` of the comparison
    other,      \* the hand compared against
    cmp         \* the last result of Hand.compare in the comparison specification

gameVars == <<users, players, dealer, pc, p, h, move, desc, results, inactivity, draws,
              reveals, shoe, limit>>
probeVars == <<probe, other, cmp>>
chanVars == <<channels, rounds, thrown>>
vars == <<users, players, dealer, pc, p, h, move, desc, results, inactivity, draws,
          reveals, shoe, limit, channels, rounds, thrown, probe, other, cmp>>

\* ------------------------------------------------------------------ cards

Card(rank, down) == [rank |-> rank, down |-> down]

Value(card) == IF card.rank >= Rank_10 THEN 10 ELSE card.rank + 1

RECURSIVE RawSum(_)
RawSum(cards) ==
    IF cards = <<>> THEN 0 ELSE Value(Head(cards)) + RawSum(Tail(cards))

HandSum(sum, soft) == [sum |-> sum, soft |-> soft]

FromCards(cards) ==
    LET rawSum == RawSum(cards) IN
    IF \E i \in DOMAIN cards : cards[i].rank = ACE
    THEN LET soft == rawSum + 10 <= PERFECT IN
         HandSum(IF soft THEN rawSum + 10 ELSE rawSum, soft)
    ELSE HandSum(rawSum, FALSE)

\* A plausible slip: the soft ace is never demoted.
HandSumHitNoDemote(hs, card) ==
    IF card.rank = ACE /\ hs.sum + 11 <= PERFECT
    THEN HandSum(hs.sum + 11, TRUE)
    ELSE HandSum(hs.sum + Value(card), hs.soft)

HandSumHit(hs, card) ==
    LET a == IF card.rank = ACE /\ hs.sum + 11 <= PERFECT
             THEN HandSum(hs.sum + 11, TRUE)
             ELSE HandSum(hs.sum + Value(card), hs.soft)
    IN IF a.soft /\ a.sum > PERFECT THEN HandSum(a.sum - 10, FALSE) ELSE a

\* A plausible slip: an off-by-one bust threshold.
BustOver22(hand) == hand.handSum.sum > PERFECT + 1

Bust(hand) == hand.handSum.sum > PERFECT

Blackjack(cards, hs) == hs.sum = PERFECT /\ Len(cards) <= 2

NewHand(cards) ==
    LET hs == FromCards(cards) IN
    [cards |-> cards, handSum |-> hs,
     status |-> IF Blackjack(cards, hs) THEN "BLACKJACK" ELSE "WAIT"]

HandDeal(r1, r2) == NewHand(<<Card(r1, FALSE), Card(r2, FALSE)>>)

HandHit(hand, card) ==
    [hand EXCEPT !.cards = Append(@, card), !.handSum = HandSumHit(@, card)]

\* A plausible slip: equal totals always tie.
CompareTieOnEqual(a, b) ==
    IF a.handSum.sum > b.handSum.sum THEN "WIN"
    ELSE IF a.handSum.sum < b.handSum.sum THEN "LOSE"
    ELSE "TIE"

Compare(a, b) ==
    LET ourSum == a.handSum.sum
        theirSum == b.handSum.sum
        ourBJ == Len(a.cards) <= 2
        theirBJ == Len(b.cards) <= 2
    IN IF ourSum > theirSum THEN "WIN"
       ELSE IF ourSum < theirSum THEN "LOSE"
       ELSE IF ourSum # PERFECT THEN "TIE"
       ELSE IF ourBJ /\ ~theirBJ THEN "WIN"
       ELSE IF ~ourBJ /\ theirBJ THEN "LOSE"
       ELSE "TIE"

DealerDeal(r1, r2) ==
    LET cards == <<Card(r1, FALSE), Card(r2, TRUE)>>
        hs == FromCards(cards)
    IN [cards |-> cards, handSum |-> hs,
        status |-> IF Blackjack(cards, hs) THEN "BLACKJACK" ELSE "WAIT",
        hidden |-> TRUE]

Reveal(d) == [d EXCEPT !.hidden = FALSE, !.cards[2].down = FALSE]

PlayerDeal(user, r1, r2) == [hands |-> <<HandDeal(r1, r2)>>, user |-> user]

\* A plausible slip: the dealer stands on every 17.
DealerMoveStandAll17(d) ==
    IF d.handSum.sum < 17 THEN "HIT" ELSE "STAND"

DealerMove(d) ==
    IF d.handSum.sum < 17 \/ (d.handSum.sum = 17 /\ d.handSum.soft)
    THEN "HIT" ELSE "STAND"

\* ------------------------------------------------------------- the round

NoHand == <<0, 0>>
Outcome(res, from) == [res |-> res, from |-> from]

NoDealer == [cards |-> <<>>, handSum |-> HandSum(0, FALSE), status |-> "WAIT", hidden |-> TRUE]

GameIdle ==
    /\ users = <<>>
    /\ players = <<>>
    /\ dealer = NoDealer
    /\ pc = "idle"
    /\ p = 0
    /\ h = 0
    /\ move = "NONE"
    /\ desc = "none"
    /\ results = <<>>
    /\ inactivity = 0
    /\ draws = 0
    /\ reveals = 0
    /\ shoe = {}
    /\ limit = 0

ChanIdle ==
    /\ channels = [c \in {} |-> {}]
    /\ rounds = <<>>
    /\ thrown = FALSE

ProbeIdle ==
    /\ probe = NewHand(<<>>)
    /\ other = NewHand(<<>>)
    /\ cmp = "NONE"

Init ==
    /\ users \in UserLists
    /\ players = <<>>
    /\ dealer = NoDealer
    /\ pc = "start"
    /\ p = 0
    /\ h = 0
    /\ move = "NONE"
    /\ desc = "none"
    /\ results = <<>>
    /\ inactivity = 0
    /\ draws = 0
    /\ reveals = 0
    /\ shoe = Shoe(users)
    /\ limit = MaxDraws
    /\ ChanIdle
    /\ ProbeIdle

\* runGame up to its first await of a move: the deal and the dealer-natural branch.
Deal ==
    /\ pc = "start"
    /\ \E d1 \in shoe, d2 \in shoe, pr \in [DOMAIN users -> shoe \X shoe] :
         LET ps == [i \in DOMAIN users |-> PlayerDeal(users[i], pr[i][1], pr[i][2])]
             dl == DealerDeal(d1, d2)
         IN IF dl.handSum.sum = PERFECT
            THEN /\ dealer' = Reveal(dl)
                 /\ reveals' = reveals + 1
                 /\ players' = ps
                 /\ desc' = "DEALER BLACKJACK"
                 /\ results' = <<Outcome(IF ps[1].hands[1].handSum.sum = PERFECT
                                         THEN "TIE" ELSE "LOSE", <<1, 1>>)>>
                 /\ pc' = "done"
                 /\ UNCHANGED <<p, h>>
            ELSE /\ dealer' = dl
                 /\ reveals' = reveals
                 /\ players' = [ps EXCEPT ![1].hands[1].status = "CURRENT"]
                 /\ desc' = "moves"
                 /\ results' = results
                 /\ pc' = "move"
                 /\ p' = 1
                 /\ h' = 1
    /\ UNCHANGED <<users, shoe, limit, move, inactivity, draws, channels, rounds, thrown,
                   probeVars>>

CurHand == players[p].hands[h]

\* A plausible slip: the dealer's card is revealed whenever a hand's turn ends.
EndHandRevealEarly(ps, d) ==
    IF h + 1 <= Len(ps[p].hands)
    THEN /\ players' = [ps EXCEPT ![p].hands[h + 1].status = "CURRENT"]
         /\ h' = h + 1
         /\ desc' = d
         /\ dealer' = Reveal(dealer)
         /\ reveals' = reveals + 1
         /\ UNCHANGED p
         /\ pc' = "move"
    ELSE IF p + 1 <= Len(ps)
    THEN /\ players' = [ps EXCEPT ![p + 1].hands[1].status = "CURRENT"]
         /\ p' = p + 1
         /\ h' = 1
         /\ desc' = "moves"
         /\ dealer' = Reveal(dealer)
         /\ reveals' = reveals + 1
         /\ pc' = "move"
    ELSE /\ players' = ps
         /\ dealer' = Reveal([dealer EXCEPT !.status = "CURRENT"])
         /\ reveals' = reveals + 1
         /\ desc' = "Dealer's other card was"
         /\ pc' = "dealer"
         /\ UNCHANGED <<p, h>>

\* What follows `break hand`: the next hand of the player, the next player, or the
\* dealer's turn (status CURRENT, the reveal, and the dealer loop's first await).
EndHand(ps, d) ==
    IF h + 1 <= Len(ps[p].hands)
    THEN /\ players' = [ps EXCEPT ![p].hands[h + 1].status = "CURRENT"]
         /\ h' = h + 1
         /\ desc' = d
         /\ UNCHANGED <<p, dealer, reveals>>
         /\ pc' = "move"
    ELSE IF p + 1 <= Len(ps)
    THEN /\ players' = [ps EXCEPT ![p + 1].hands[1].status = "CURRENT"]
         /\ p' = p + 1
         /\ h' = 1
         /\ desc' = "moves"
         /\ UNCHANGED <<dealer, reveals>>
         /\ pc' = "move"
    ELSE /\ players' = ps
         /\ dealer' = Reveal([dealer EXCEPT !.status = "CURRENT"])
         /\ reveals' = reveals + 1
         /\ desc' = "Dealer's other card was"
         /\ pc' = "dealer"
         /\ UNCHANGED <<p, h>>

Rest == UNCHANGED <<users, shoe, limit, inactivity, channels, rounds, thrown, probeVars>>

\* A plausible slip: only HIT is refused on a total of 21.
BestSumOnlyHit(m) == CurHand.handSum.sum = PERFECT /\ m = "HIT"

\* The guard before the switch: any move but STAND on a total of 21.
BestSum(m) == CurHand.handSum.sum = PERFECT /\ m # "STAND"

RejectBest ==
    /\ pc = "move"
    /\ \E m \in Moves :
         /\ BestSum(m)
         /\ move' = m
    /\ desc' = "You can't do that, you've got the best sum!"
    /\ UNCHANGED <<players, dealer, reveals, pc, p, h, results, draws>>
    /\ Rest

Hit ==
    /\ pc = "move"
    /\ ~BestSum("HIT")
    /\ draws < limit
    /\ move' = "HIT"
    /\ draws' = draws + 1
    /\ \E r \in shoe :
         LET hand == HandHit(CurHand, Card(r, FALSE))
             ps == [players EXCEPT ![p].hands[h] = hand]
         IN IF Bust(hand)
            THEN /\ results' = Append(results, Outcome("LOSE", <<p, h>>))
                 /\ EndHand(ps, "You draw and BUST")
            ELSE /\ players' = ps
                 /\ desc' = "You draw"
                 /\ UNCHANGED <<dealer, reveals, pc, p, h, results>>
    /\ Rest

Stand ==
    /\ pc = "move"
    /\ move' = "STAND"
    /\ EndHand([players EXCEPT ![p].hands[h].status = "STAND"], desc)
    /\ UNCHANGED <<results, draws>>
    /\ Rest

Double ==
    /\ pc = "move"
    /\ ~BestSum("DOUBLE")
    /\ draws < limit
    /\ move' = "DOUBLE"
    /\ draws' = draws + 1
    /\ \E r \in shoe :
         LET hand == HandHit(CurHand, Card(r, FALSE))
         IN IF Bust(hand)
            THEN /\ results' = Append(results, Outcome("LOSE", <<p, h>>))
                 /\ EndHand([players EXCEPT ![p].hands[h] = hand],
                            "You double down and draw and BUST")
            ELSE /\ results' = results
                 /\ EndHand([players EXCEPT ![p].hands[h] =
                                [hand EXCEPT !.status = "SURRENDER"]],
                            "You double down and draw")
    /\ Rest

\* A plausible slip: the pair is compared by rank instead of by value.
SplitLegalSameRank(hand) ==
    /\ ~(Len(hand.cards) > 2)
    /\ ~(hand.cards[1].rank # hand.cards[2].rank)

\* The two guards of case Move.SPLIT, negated.

SplitLegal(hand) ==
    /\ ~(Len(hand.cards) > 2)
    /\ ~(Value(hand.cards[1]) # Value(hand.cards[2]))

\* A plausible slip: the new hand is pushed to the end of the hand list.
InsertAtEnd(s, i, e) == Append(s, e)

InsertAt(s, i, e) == SubSeq(s, 1, i - 1) \o <<e>> \o SubSeq(s, i, Len(s))

Split ==
    /\ pc = "move"
    /\ ~BestSum("SPLIT")
    /\ move' = "SPLIT"
    /\ IF Len(CurHand.cards) > 2
       THEN /\ desc' = "You can only split on the first turn of your hand!"
            /\ UNCHANGED <<players, draws>>
       ELSE IF ~SplitLegal(CurHand)
       THEN /\ desc' = "You can only split if your cards have the same value!"
            /\ UNCHANGED <<players, draws>>
       ELSE /\ draws + 2 <= limit
            /\ draws' = draws + 2
            /\ desc' = "You split your hand and draw"
            /\ \E r1 \in shoe, r2 \in shoe :
                 LET popped == CurHand.cards[Len(CurHand.cards)]
                     rest == SubSeq(CurHand.cards, 1, Len(CurHand.cards) - 1)
                     new == NewHand(<<popped>>)
                     old == [CurHand EXCEPT !.cards = rest, !.handSum = FromCards(rest)]
                     hands1 == InsertAt(players[p].hands, h + 1, new)
                     hands2 == [hands1 EXCEPT ![h] = HandHit(old, Card(r1, FALSE)),
                                              ![h + 1] = HandHit(@, Card(r2, FALSE))]
                 IN players' = [players EXCEPT ![p].hands = hands2]
    /\ UNCHANGED <<dealer, reveals, pc, p, h, results>>
    /\ Rest

Surrender ==
    /\ pc = "move"
    /\ ~BestSum("SURRENDER")
    /\ move' = "SURRENDER"
    /\ IF Len(CurHand.cards) > 2
       THEN /\ desc' = "You can only surrender on the first turn of your hand!"
            /\ UNCHANGED <<players, dealer, reveals, pc, p, h>>
       ELSE EndHand([players EXCEPT ![p].hands[h].status = "SURRENDER"],
                    "You surrender your hand")
    /\ UNCHANGED <<results, draws>>
    /\ Rest

\* A plausible slip: the timeout resolves the request and the hand is prompted again.
TimeoutRetry ==
    /\ pc = "move"
    /\ inactivity < 2
    /\ desc' = "Ended due to inactivity."
    /\ inactivity' = inactivity + 1
    /\ UNCHANGED <<users, shoe, limit, players, dealer, reveals, pc, p, h, move, results,
                   draws, channels, rounds, thrown, probeVars>>

\* The collector ends by time: the prompt is edited once and the promise of
\* player.move() is never resolved, so runGame stays at its await.
Timeout ==
    /\ pc = "move"
    /\ desc' = "Ended due to inactivity."
    /\ inactivity' = inactivity + 1
    /\ pc' = "hung"
    /\ UNCHANGED <<users, shoe, limit, players, dealer, reveals, p, h, move, results,
                   draws, channels, rounds, thrown, probeVars>>

\* The result switch after the dealer stands.
Settle(ps, d) == <<Outcome(Compare(ps[1].hands[1], d), <<1, 1>>)>>

\* A plausible slip: the dealer's bust test is off by one.
DealerHitLateBust ==
    /\ pc = "dealer"
    /\ DealerMove(dealer) = "HIT"
    /\ draws < limit
    /\ draws' = draws + 1
    /\ \E r \in shoe :
         LET d == HandHit(dealer, Card(r, FALSE))
         IN IF d.handSum.sum > PERFECT + 1
            THEN /\ dealer' = [d EXCEPT !.status = "BUST"]
                 /\ desc' = "Dealer draws and BUSTS"
                 /\ results' = Append(results, Outcome("WIN", NoHand))
                 /\ pc' = "done"
            ELSE /\ dealer' = d
                 /\ desc' = "Dealer draws"
                 /\ UNCHANGED <<results, pc>>
    /\ UNCHANGED <<players, reveals, p, h, move>>
    /\ Rest

DealerHit ==
    /\ pc = "dealer"
    /\ DealerMove(dealer) = "HIT"
    /\ draws < limit
    /\ draws' = draws + 1
    /\ \E r \in shoe :
         LET d == HandHit(dealer, Card(r, FALSE))
         IN IF d.handSum.sum > PERFECT
            THEN /\ dealer' = [d EXCEPT !.status = "BUST"]
                 /\ desc' = "Dealer draws and BUSTS"
                 /\ results' = Append(results, Outcome("WIN", NoHand))
                 /\ pc' = "done"
            ELSE /\ dealer' = d
                 /\ desc' = "Dealer draws"
                 /\ UNCHANGED <<results, pc>>
    /\ UNCHANGED <<players, reveals, p, h, move>>
    /\ Rest

DealerStand ==
    /\ pc = "dealer"
    /\ DealerMove(dealer) = "STAND"
    /\ dealer' = [dealer EXCEPT !.status = "STAND"]
    /\ results' = results \o Settle(players, dealer')
    /\ desc' = "result"
    /\ pc' = "done"
    /\ UNCHANGED <<players, reveals, p, h, move, draws>>
    /\ Rest

Next ==
    \/ Deal
    \/ RejectBest
    \/ Hit
    \/ Stand
    \/ Double
    \/ Split
    \/ Surrender
    \/ Timeout
    \/ DealerHit
    \/ DealerStand

Spec == Init /\ [][Next]_vars

\* One user's round drawn from PairDeck, explored to MaxSplitDraws draws.
InitSplit ==
    /\ users = <<"a">>
    /\ players = <<>>
    /\ dealer = NoDealer
    /\ pc = "start"
    /\ p = 0
    /\ h = 0
    /\ move = "NONE"
    /\ desc = "none"
    /\ results = <<>>
    /\ inactivity = 0
    /\ draws = 0
    /\ reveals = 0
    /\ shoe = PairDeck
    /\ limit = MaxSplitDraws
    /\ ChanIdle
    /\ ProbeIdle

SpecSplit == InitSplit /\ [][Next]_vars

\* One user's round drawn from DealerDeck in which the participant stands at
\* once, so that the dealer loop is explored to its end for every drawn card.
InitDealer ==
    /\ users = <<"a">>
    /\ players = <<>>
    /\ dealer = NoDealer
    /\ pc = "start"
    /\ p = 0
    /\ h = 0
    /\ move = "NONE"
    /\ desc = "none"
    /\ results = <<>>
    /\ inactivity = 0
    /\ draws = 0
    /\ reveals = 0
    /\ shoe = DealerDeck
    /\ limit = DealerLimit
    /\ ChanIdle
    /\ ProbeIdle

NextDealer ==
    \/ Deal
    \/ Stand
    \/ DealerHit
    \/ DealerStand

\* The dealer loop awaits only its own timer (dealerMove's sleep), so a dealer
\* step that is possible is eventually taken.
SpecDealerFair ==
    /\ InitDealer
    /\ [][NextDealer]_vars
    /\ WF_vars(DealerHit \/ DealerStand)

\* ------------------------------------------------- the hand-sum calculator alone

InitialHands ==
    {<<>>} \cup {<<Card(r, FALSE)>> : r \in Ranks}
           \cup {<<Card(r1, FALSE), Card(r2, FALSE)>> : r1 \in Ranks, r2 \in Ranks}

InitSum ==
    /\ GameIdle
    /\ ChanIdle
    /\ probe \in {NewHand(cs) : cs \in InitialHands}
    /\ other = NewHand(<<>>)
    /\ cmp = "NONE"

ProbeHit ==
    /\ Len(probe.cards) < MaxLen
    /\ \E r \in Ranks : probe' = HandHit(probe, Card(r, FALSE))
    /\ UNCHANGED <<gameVars, chanVars, other, cmp>>

NextSum == ProbeHit

SpecSum == InitSum /\ [][NextSum]_vars

\* ------------------------------------------------------- Hand.compare alone

InitCmp ==
    /\ GameIdle
    /\ ChanIdle
    /\ probe \in {HandDeal(r1, r2) : r1 \in Deck, r2 \in Deck}
    /\ other \in {HandDeal(r1, r2) : r1 \in Deck, r2 \in Deck}
    /\ cmp = "NONE"

CmpHitThis ==
    /\ Len(probe.cards) < MaxCmpLen
    /\ \E r \in Deck : probe' = HandHit(probe, Card(r, FALSE))
    /\ cmp' = "NONE"
    /\ UNCHANGED <<gameVars, chanVars, other>>

CmpHitOther ==
    /\ Len(other.cards) < MaxCmpLen
    /\ \E r \in Deck : other' = HandHit(other, Card(r, FALSE))
    /\ cmp' = "NONE"
    /\ UNCHANGED <<gameVars, chanVars, probe>>

CmpCompare ==
    /\ cmp' = Compare(probe, other)
    /\ UNCHANGED <<gameVars, chanVars, probe, other>>

NextCmp ==
    \/ CmpHitThis
    \/ CmpHitOther
    \/ CmpCompare

SpecCmp == InitCmp /\ [][NextCmp]_vars

\* ------------------------------------------------------ the channel registry

EmptyMap == [c \in {} |-> {}]

SeqToSet(s) == {s[i] : i \in DOMAIN s}

CurrentIds(ch) == IF ch \in DOMAIN channels THEN channels[ch] ELSE {}

MapSet(m, k, v) == [c \in DOMAIN m \cup {k} |-> IF c = k THEN v ELSE m[c]]

MapDelete(m, k) == [c \in DOMAIN m \ {k} |-> m[c]]

InitChan ==
    /\ GameIdle
    /\ channels = EmptyMap
    /\ rounds = <<>>
    /\ thrown = FALSE
    /\ ProbeIdle

\* execute up to `await game.runGame()`.
Execute(ch, author, mentions) ==
    /\ Len(rounds) < MaxRounds
    /\ LET playerIds == <<author>> \o mentions
           currentIds == CurrentIds(ch)
       IN IF Cardinality(currentIds) > 0
             /\ \E i \in DOMAIN playerIds : playerIds[i] \in currentIds
          THEN /\ thrown' = TRUE
               /\ UNCHANGED <<channels, rounds>>
          ELSE /\ channels' = MapSet(channels, ch, currentIds \cup SeqToSet(playerIds))
               /\ rounds' = Append(rounds, [channel |-> ch, playerIds |-> playerIds,
                                            st |-> "running"])
               /\ thrown' = FALSE
    /\ UNCHANGED <<gameVars, probeVars>>

\* runGame returns (the round ended by a result): the rest of execute.
RoundReturns(r) ==
    /\ r \in DOMAIN rounds
    /\ rounds[r].st = "running"
    /\ LET ch == rounds[r].channel
           playerIds == rounds[r].playerIds
       IN IF ch \notin DOMAIN channels
          THEN channels' = channels
          ELSE IF Len(playerIds) = Cardinality(channels[ch])
          THEN channels' = MapDelete(channels, ch)
          ELSE channels' = [channels EXCEPT ![ch] = @ \ SeqToSet(playerIds)]
    /\ rounds' = [rounds EXCEPT ![r].st = "returned"]
    /\ UNCHANGED <<thrown, gameVars, probeVars>>

\* A move request of the round times out: player.move() never resolves, so
\* runGame never returns and the rest of execute never runs.
RoundHangs(r) ==
    /\ r \in DOMAIN rounds
    /\ rounds[r].st = "running"
    /\ rounds' = [rounds EXCEPT ![r].st = "hung"]
    /\ UNCHANGED <<channels, thrown, gameVars, probeVars>>

NextChan ==
    \/ \E ch \in ChannelIds, author \in Ids, mentions \in MentionLists :
         Execute(ch, author, mentions)
    \/ \E r \in 1 .. MaxRounds : RoundReturns(r)
    \/ \E r \in 1 .. MaxRounds : RoundHangs(r)

SpecChan == InitChan /\ [][NextChan]_vars

\* Every requested move is answered or times out: a running round ends one way
\* or the other.
SpecChanFair ==
    /\ InitChan
    /\ [][NextChan]_vars
    /\ \A r \in 1 .. MaxRounds : WF_vars(RoundReturns(r) \/ RoundHangs(r))

\* ------------------------------------------------------------------ claims

\* The outcome messages that speak of hand <<i, j>>: those computed from it and
\* those computed from no hand at all (the dealer-bust "You won!").
MessagesFor(i, j) ==
    {k \in DOMAIN results : results[k].from \in {<<i, j>>, NoHand}}

Surrendered(hand) == hand.status = "SURRENDER" /\ Len(hand.cards) = 2

\* C1: once the round has ended, no outcome message that speaks of a busted
\* (total > 21) or surrendered participant hand says WIN or TIE, whether the
\* dealer stood or busted.
C1_BustOrSurrenderNeverWins ==
    pc = "done" =>
        \A i \in DOMAIN players : \A j \in DOMAIN players[i].hands :
            (Bust(players[i].hands[j]) \/ Surrendered(players[i].hands[j])) =>
                \A k \in MessagesFor(i, j) : results[k].res = "LOSE"

\* C2: when the round has ended with the dealer standing or busting, every hand
\* of every participant (split hands included) has exactly one outcome message.
C2_OneResultPerHand ==
    (pc = "done" /\ dealer.status \in {"STAND", "BUST"}) =>
        \A i \in DOMAIN players : \A j \in DOMAIN players[i].hands :
            Cardinality(MessagesFor(i, j)) = 1

DealerNatural ==
    /\ Len(dealer.cards) >= 2
    /\ FromCards(SubSeq(dealer.cards, 1, 2)).sum = PERFECT

\* C3: if the dealer's first two cards total 21, the hidden card is revealed, the
\* round is over with no move acquired and no card drawn, and for every
\* participant the shown outcome is TIE if the participant's hand totals 21 and
\* LOSE otherwise.
C3_DealerNaturalSettlesEveryone ==
    DealerNatural =>
        /\ ~dealer.hidden
        /\ ~dealer.cards[2].down
        /\ pc = "done"
        /\ move = "NONE"
        /\ draws = 0
        /\ \A i \in DOMAIN players :
             /\ Len(players[i].hands) = 1
             /\ Len(players[i].hands[1].cards) = 2
             /\ \E k \in DOMAIN results :
                  results[k].res = (IF players[i].hands[1].handSum.sum = PERFECT
                                    THEN "TIE" ELSE "LOSE")

\* C4: appending a card with HandSum.hit to a hand that is not bust leaves the
\* (sum, soft) pair equal to HandSum.fromCards of the full card sequence.
C4_HitAgreesWithFromCards ==
    [][~Bust(probe) => probe'.handSum = FromCards(probe'.cards)]_vars

\* C4 witness: an ace counted as 11 was demoted by a later card.
C4_Witness ==
    /\ Len(probe.cards) >= 3
    /\ probe.cards[1].rank = ACE
    /\ FromCards(SubSeq(probe.cards, 1, 2)).soft
    /\ ~probe.handSum.soft
    /\ probe.handSum.sum <= PERFECT

\* A step of the move loop that handled move m (not the timeout).
Handled(m) == pc = "move" /\ pc' # "hung" /\ move' = m

\* C5: a DOUBLE or SURRENDER acquired for a hand of more than 2 cards changes no
\* hand, draws no card and leaves the same hand CURRENT.
C5_DoubleSurrenderOnlyOnTwoCards ==
    [][((Handled("DOUBLE") \/ Handled("SURRENDER")) /\ Len(CurHand.cards) > 2) =>
          /\ players' = players
          /\ draws' = draws
          /\ pc' = "move" /\ p' = p /\ h' = h
          /\ players'[p].hands[h].status = "CURRENT"]_vars

\* C6: a SPLIT is accepted (the hand list grows by one hand) exactly when the
\* CURRENT hand has 2 cards of equal point value; any other SPLIT changes no
\* hand and no hand list, draws nothing and leaves the same hand CURRENT.
C6_SplitAcceptedIffPair ==
    [][Handled("SPLIT") =>
          IF Len(CurHand.cards) = 2
             /\ (IF CurHand.cards[1].rank >= 9 THEN 10 ELSE CurHand.cards[1].rank + 1)
                = (IF CurHand.cards[2].rank >= 9 THEN 10 ELSE CurHand.cards[2].rank + 1)
          THEN /\ Len(players'[p].hands) = Len(players[p].hands) + 1
               /\ draws' = draws + 2
          ELSE /\ players' = players
               /\ dealer' = dealer
               /\ draws' = draws
               /\ pc' = "move" /\ p' = p /\ h' = h
               /\ players'[p].hands[h].status = "CURRENT"]_vars

\* C6 witness: a ten and a queen were split into two hands.
C6_Witness ==
    /\ pc = "move"
    /\ move = "SPLIT"
    /\ Len(players[p].hands) = 2
    /\ players[p].hands[1].cards[1].rank = Rank_10
    /\ players[p].hands[2].cards[1].rank = QUEEN

Running(r) == r \in DOMAIN rounds /\ rounds[r].st = "running"

\* C7: no identity is a participant of two running rounds of one channel, and
\* the identities of a running round are in the channel's active set.
C7_NoIdentityInTwoRounds ==
    /\ \A r1 \in DOMAIN rounds, r2 \in DOMAIN rounds :
         (r1 # r2 /\ Running(r1) /\ Running(r2)
            /\ rounds[r1].channel = rounds[r2].channel) =>
              SeqToSet(rounds[r1].playerIds) \cap SeqToSet(rounds[r2].playerIds) = {}
    /\ \A r \in DOMAIN rounds :
         Running(r) => SeqToSet(rounds[r].playerIds) \subseteq CurrentIds(rounds[r].channel)

\* C8: every started round eventually returns to the command handler, which
\* then has removed the round's identities from the channel's active set.
C8_EveryRoundReturns ==
    \A r \in 1 .. MaxRounds :
        (r \in DOMAIN rounds) ~>
            (/\ r \in DOMAIN rounds
             /\ rounds[r].st = "returned"
             /\ SeqToSet(rounds[r].playerIds) \cap CurrentIds(rounds[r].channel) = {})

\* C9: a timeout writes the inactivity notification exactly once, and from then
\* on nothing changes: no move, no card, no status, no outcome message.
C9_TimeoutEndsOnce ==
    [][/\ (pc' = "hung" /\ pc # "hung") => (inactivity = 0 /\ inactivity' = 1)
       /\ (inactivity' # inactivity) => (pc = "move" /\ pc' = "hung")
       /\ (pc = "hung") => UNCHANGED vars]_vars

\* C9 witness: the round timed out after a card had been drawn.
C9_Witness ==
    /\ pc = "hung"
    /\ inactivity = 1
    /\ draws > 0
    /\ results = <<>>

\* C10: in the dealer's turn the dealer draws exactly when total < 17 or the
\* total is a soft 17, and stands otherwise; no dealer card is drawn otherwise.
C10_DealerPolicy ==
    [][/\ (pc = "dealer") =>
            IF dealer.handSum.sum < 17 \/ (dealer.handSum.sum = 17 /\ dealer.handSum.soft)
            THEN /\ Len(dealer'.cards) = Len(dealer.cards) + 1
                 /\ dealer'.status # "STAND"
            ELSE /\ dealer'.cards = dealer.cards
                 /\ dealer'.status = "STAND"
                 /\ pc' = "done"
       /\ (pc \notin {"start", "dealer"}) => Len(dealer'.cards) = Len(dealer.cards)]_vars

\* C10 witness: the dealer drew on a soft 17 and then stood on a hard 17.
C10_Witness ==
    /\ pc = "done"
    /\ Len(dealer.cards) = 3
    /\ FromCards(SubSeq(dealer.cards, 1, 2)) = HandSum(17, TRUE)
    /\ dealer.handSum = HandSum(17, FALSE)
    /\ dealer.status = "STAND"

\* C11: Hand.compare gives WIN on a higher total, LOSE on a lower one, TIE on
\* equal totals other than 21, and on 21 against 21 the 2-card hand beats the
\* hand of more than 2 cards, two of a kind tie.
C11_CompareTable ==
    cmp # "NONE" =>
        LET a == probe.handSum.sum
            b == other.handSum.sum
            na == Len(probe.cards)
            nb == Len(other.cards)
        IN /\ (a > b) => cmp = "WIN"
           /\ (a < b) => cmp = "LOSE"
           /\ (a = b /\ a # 21) => cmp = "TIE"
           /\ (a = 21 /\ b = 21 /\ na = 2 /\ nb > 2) => cmp = "WIN"
           /\ (a = 21 /\ b = 21 /\ na > 2 /\ nb = 2) => cmp = "LOSE"
           /\ (a = 21 /\ b = 21 /\ na = 2 /\ nb = 2) => cmp = "TIE"
           /\ (a = 21 /\ b = 21 /\ na > 2 /\ nb > 2) => cmp = "TIE"
           /\ (a = 20 /\ b = 21) => cmp = "LOSE"

\* C11 witness: a natural was compared with a three-card 21.
C11_Witness ==
    /\ cmp = "WIN"
    /\ probe.handSum.sum = 21 /\ Len(probe.cards) = 2
    /\ other.handSum.sum = 21 /\ Len(other.cards) = 3

\* C12: a dealt hand of 2 cards totalling 21 (status BLACKJACK at construction;
\* it can be neither hit nor split, so it is its player's only hand) keeps
\* status BLACKJACK and is never the hand a move is requested for.
C12_BlackjackIsTerminal ==
    \A i \in DOMAIN players :
        (/\ Len(players[i].hands) = 1
         /\ Len(players[i].hands[1].cards) = 2
         /\ players[i].hands[1].handSum.sum = 21) =>
            /\ players[i].hands[1].status = "BLACKJACK"
            /\ ~(pc = "move" /\ p = i)

\* The hand at turn keeps the turn in this step.
KeepsTurn == pc' = "move" /\ p' = p /\ h' = h

\* C13: a HIT that takes the hand over 21 sets its status to BUST and ends its
\* turn; a HIT that does not leaves it CURRENT with the turn.
C13_HitBustSetsBust ==
    [][(Handled("HIT") /\ Len(players'[p].hands[h].cards) = Len(CurHand.cards) + 1) =>
          IF players'[p].hands[h].handSum.sum > 21
          THEN players'[p].hands[h].status = "BUST" /\ ~KeepsTurn
          ELSE players'[p].hands[h].status = "CURRENT" /\ KeepsTurn]_vars

\* C14: a DOUBLE on a 2-card hand draws exactly one card into it and ends its
\* turn with status BUST if the total exceeds 21 and DOUBLE otherwise.
C14_DoubleSetsDouble ==
    [][(Handled("DOUBLE") /\ Len(CurHand.cards) = 2 /\ players' # players) =>
          /\ Len(players'[p].hands[h].cards) = 3
          /\ draws' = draws + 1
          /\ ~KeepsTurn
          /\ players'[p].hands[h].status =
                (IF players'[p].hands[h].handSum.sum > 21 THEN "BUST" ELSE "DOUBLE")]_vars

CurrentHands ==
    {<<i, j>> \in (DOMAIN players) \X (1 .. (limit + 1)) :
        j \in DOMAIN players[i].hands /\ players[i].hands[j].status = "CURRENT"}

\* C15: at most one hand, the dealer's included, has status CURRENT, and a
\* participant hand is CURRENT only while it is the hand at turn.
C15_SingleCurrentHand ==
    /\ Cardinality(CurrentHands) + (IF dealer.status = "CURRENT" THEN 1 ELSE 0) <= 1
    /\ \A c \in CurrentHands : pc \in {"move", "hung"} /\ c = <<p, h>>

\* C16: an accepted SPLIT of the hand at index h puts that hand's second card
\* into a new hand at index h + 1, keeps every other hand (those after h move up
\* by one), draws one card into each of the two hands, leaves both with 2 cards
\* and a sum equal to fromCards of their cards, and keeps the original hand
\* CURRENT with the turn; when a hand's turn ends, the hand after it is next.
C16_SplitInsertsAfter ==
    [][/\ (Handled("SPLIT") /\ Len(players'[p].hands) # Len(players[p].hands)) =>
            LET old == players[p].hands
                new == players'[p].hands
            IN /\ Len(new) = Len(old) + 1
               /\ \A k \in 1 .. (h - 1) : new[k] = old[k]
               /\ \A k \in (h + 1) .. Len(old) : new[k + 1] = old[k]
               /\ \A i \in DOMAIN players : i # p => players'[i] = players[i]
               /\ Len(old[h].cards) = 2
               /\ Len(new[h].cards) = 2 /\ Len(new[h + 1].cards) = 2
               /\ new[h].cards[1] = old[h].cards[1]
               /\ new[h + 1].cards[1] = old[h].cards[2]
               /\ draws' = draws + 2
               /\ new[h].handSum = FromCards(new[h].cards)
               /\ new[h + 1].handSum = FromCards(new[h + 1].cards)
               /\ new[h].status = "CURRENT"
               /\ KeepsTurn
       /\ (pc = "move" /\ pc' # "hung" /\ ~KeepsTurn /\ h < Len(players[p].hands)) =>
            /\ pc' = "move" /\ p' = p /\ h' = h + 1
            /\ Len(players'[p].hands) = Len(players[p].hands)
            /\ players'[p].hands[h + 1].cards = players[p].hands[h + 1].cards]_vars

\* C16 witness: the first hand of a list of two hands was split again, and the
\* hand produced by the earlier split now sits at index 3.
C16_Witness ==
    /\ pc = "move"
    /\ move = "SPLIT"
    /\ desc = "You split your hand and draw"
    /\ h = 1
    /\ Len(players[1].hands) = 3
    /\ players[1].hands[3].status = "WAIT"

\* C17: while the hand at turn totals 21, every handled move other than STAND
\* changes no card, total, status or hand list, draws nothing, and leaves the
\* same hand at turn with the refusal shown; and in every step a participant
\* hand that totals 21 keeps exactly its cards (at its index, or one further
\* when a hand before it was split).
C17_BestSumRejectsAllButStand ==
    [][/\ (pc = "move" /\ pc' # "hung" /\ CurHand.handSum.sum = PERFECT /\ move' # "STAND") =>
            /\ players' = players
            /\ dealer' = dealer
            /\ draws' = draws
            /\ results' = results
            /\ KeepsTurn
            /\ desc' = "You can't do that, you've got the best sum!"
       /\ \A i \in DOMAIN players : \A j \in DOMAIN players[i].hands :
            players[i].hands[j].handSum.sum = PERFECT =>
                \E k \in {j, j + 1} \cap DOMAIN players'[i].hands :
                    /\ players'[i].hands[k].cards = players[i].hands[j].cards
                    /\ players'[i].hands[k].handSum = players[i].hands[j].handSum]_vars

\* C17 witness: a DOUBLE was refused on a three-card hand that totals 21.
C17_Witness ==
    /\ pc = "move"
    /\ move = "DOUBLE"
    /\ desc = "You can't do that, you've got the best sum!"
    /\ Len(CurHand.cards) = 3
    /\ CurHand.handSum.sum = PERFECT
    /\ draws = 1

\* C18: the reveal happens at most once in a round, and exactly once when the
\* round is at the dealer's turn or has ended (by a dealer natural, a dealer bust
\* or the settlement); while a participant is at turn, or the round has timed
\* out during one, it has not happened and the dealer's second card is face-down
\* with hidden = true; the dealer holds more than 2 cards only after the reveal.
C18_RevealOnceBeforeDealerTurn ==
    /\ reveals <= 1
    /\ pc \in {"dealer", "done"} =>
          /\ reveals = 1
          /\ ~dealer.hidden
          /\ ~dealer.cards[2].down
    /\ pc \in {"move", "hung"} =>
          /\ reveals = 0
          /\ dealer.hidden
          /\ dealer.cards[2].down
          /\ Len(dealer.cards) = 2
    /\ Len(dealer.cards) > 2 => reveals = 1

\* C18 witness: a round of two participants has ended after the dealer drew.
C18_Witness ==
    /\ pc = "done"
    /\ Len(users) = 2
    /\ reveals = 1
    /\ Len(dealer.cards) >= 3
    /\ ~dealer.hidden

\* C19: once the dealer's turn has started the round ends, with the dealer either
\* standing on a total from 17 to 21 that is not a soft 17, or bust on a total
\* above 21.
C19_DealerLoopTerminates ==
    (pc = "dealer") ~>
        (/\ pc = "done"
         /\ \/ /\ dealer.status = "STAND"
               /\ dealer.handSum.sum >= 17
               /\ dealer.handSum.sum <= PERFECT
               /\ ~(dealer.handSum.sum = 17 /\ dealer.handSum.soft)
            \/ /\ dealer.status = "BUST"
               /\ dealer.handSum.sum > PERFECT)

\* C19 witness: the dealer loop has ended after the longest run of draws.
C19_Witness ==
    /\ pc = "done"
    /\ draws = 11
    /\ dealer.status = "STAND"
    /\ dealer.handSum = HandSum(17, FALSE)

\* C20: the hand a move is requested for is CURRENT, holds at least 2 cards and
\* totals at most 21.
C20_RequestedHandIsPlayable ==
    pc = "move" =>
        /\ CurHand.status = "CURRENT"
        /\ Len(CurHand.cards) >= 2
        /\ CurHand.handSum.sum <= 21

\* C20 witness: after two splits, the third hand of the list is at turn.
C20_Witness ==
    /\ pc = "move"
    /\ h = 3
    /\ Len(players[1].hands) = 3
    /\ draws = 4
    /\ move = "STAND"

====
